---- MODULE Spec2Model ----
(***************************************************************************)
(* A model of vix::time (vixcpp/time): the calendar value types Date and   *)
(* DateTime, their text parsers and formatters, and their conversion to    *)
(* and from Timestamp (signed 64-bit nanoseconds since the Unix epoch).    *)
(*                                                                         *)
(* The library is a set of pure functions on immutable values.  The state  *)
(* machine applies them one after another: hist is the sequence of values  *)
(* produced so far (hist[1] is the input), ops the sequence of operations  *)
(* applied, so that hist[i+1] is the result of ops[i] applied to hist[i].  *)
(* Characters are their ASCII codes, a text is a sequence of characters.   *)
(***************************************************************************)
EXTENDS Integers, Sequences, FiniteSets, TLC

VARIABLES hist, ops

vars == <<hist, ops>>

\* Longest chain of operations applied to one input.
MaxOps == 3

(***************************************************************************)
(* Characters                                                              *)
(***************************************************************************)
Ord ==
  [c \in {"0", "1", "2", "3", "4", "5", "6", "7", "8", "9", "-", ":", ".",
          " ", "T", "Z", "+", "/", "t", "z", "x", "n", "o", "a", "d", "e",
          "\t"} |->
     CASE c = "0" -> 48 [] c = "1" -> 49 [] c = "2" -> 50 [] c = "3" -> 51
       [] c = "4" -> 52 [] c = "5" -> 53 [] c = "6" -> 54 [] c = "7" -> 55
       [] c = "8" -> 56 [] c = "9" -> 57 [] c = "-" -> 45 [] c = ":" -> 58
       [] c = "." -> 46 [] c = " " -> 32 [] c = "T" -> 84 [] c = "Z" -> 90
       [] c = "+" -> 43 [] c = "/" -> 47 [] c = "t" -> 116 [] c = "z" -> 122
       [] c = "x" -> 120 [] c = "n" -> 110 [] c = "o" -> 111 [] c = "a" -> 97
       [] c = "d" -> 100 [] c = "e" -> 101 [] c = "\t" -> 9]

\* The text whose characters are the one-character strings of cs.
Txt(cs) == [i \in 1..Len(cs) |-> Ord[cs[i]]]

DigitChars == 48..57

(***************************************************************************)
(* Tagged values of hist                                                   *)
(***************************************************************************)
TextV(s) == [t |-> "text", v |-> s]
DateV(d) == [t |-> "date", v |-> d]
BoolV(b) == [t |-> "bool", v |-> b]
DateTimeV(dt) == [t |-> "datetime", v |-> dt]
TimestampV(ts) == [t |-> "timestamp", v |-> ts]

Top == hist[Len(hist)]

Push(op, val) ==
  /\ Len(ops) < MaxOps
  /\ hist' = Append(hist, val)
  /\ ops' = Append(ops, op)

(***************************************************************************)
(* Parse.hpp                                                               *)
(***************************************************************************)
\* The lambda digit of parse_ymd and parse_hms: the digit's value, or -1.
digit(c) == IF c >= 48 /\ c <= 57 THEN c - 48 ELSE -1

\* One of parse_ymd's three loops: the decimal value of s[i..last], or -1 at
\* the first character that is no digit (the loop's early return false).
RECURSIVE ymd_loop(_, _, _, _)
ymd_loop(s, i, last, acc) ==
  IF i > last THEN acc
  ELSE IF digit(s[i]) < 0 THEN -1
  ELSE ymd_loop(s, i + 1, last, (acc * 10) + digit(s[i]))

ParseFail == [ok |-> FALSE, a |-> 0, b |-> 0, c |-> 0]

\* parse_ymd without its check of the second hyphen.
parse_ymd_nosep(s) ==
  IF Len(s) # 10 THEN ParseFail
  ELSE IF s[5] # 45 THEN ParseFail
  ELSE LET y == ymd_loop(s, 1, 4, 0)
           m == ymd_loop(s, 6, 7, 0)
           dday == ymd_loop(s, 9, 10, 0)
       IN IF y < 0 \/ m < 0 \/ dday < 0 THEN ParseFail
          ELSE [ok |-> TRUE, a |-> y, b |-> m, c |-> dday]

\* parse_ymd(s, year, month, day): ok is the returned bool, a, b, c the three
\* output parameters (left at the caller's 0 on failure).
parse_ymd(s) ==
  IF Len(s) # 10 THEN ParseFail
  ELSE IF s[5] # 45 \/ s[8] # 45 THEN ParseFail
  ELSE LET y == ymd_loop(s, 1, 4, 0)
           m == ymd_loop(s, 6, 7, 0)
           dday == ymd_loop(s, 9, 10, 0)
       IN IF y < 0 \/ m < 0 \/ dday < 0 THEN ParseFail
          ELSE [ok |-> TRUE, a |-> y, b |-> m, c |-> dday]

\* parse_hms(s, hour, minute, second).
parse_hms(s) ==
  IF Len(s) # 8 THEN ParseFail
  ELSE IF s[3] # 58 \/ s[6] # 58 THEN ParseFail
  ELSE LET h1 == digit(s[1])
           h2 == digit(s[2])
           m1 == digit(s[4])
           m2 == digit(s[5])
           s1 == digit(s[7])
           s2 == digit(s[8])
       IN IF h1 < 0 \/ h2 < 0 \/ m1 < 0 \/ m2 < 0 \/ s1 < 0 \/ s2 < 0
          THEN ParseFail
          ELSE [ok |-> TRUE, a |-> (h1 * 10) + h2, b |-> (m1 * 10) + m2,
                c |-> (s1 * 10) + s2]

(***************************************************************************)
(* std::chrono calendar types as Date and DateTime use them                *)
(***************************************************************************)
\* The value std::chrono::month{static_cast<unsigned>(x)} and
\* std::chrono::day{static_cast<unsigned>(x)} hold (an unsigned char): x
\* itself within [0, 255], unspecified outside (the cast takes a negative x
\* to 2^32 + x, which is outside).
ChronoU8(x) == IF x >= 0 /\ x <= 255 THEN {x} ELSE 0..255

\* The value std::chrono::year{y} holds (a short): y itself within
\* [-32767, 32767], unspecified outside.
ChronoYear(y) == IF y >= -32767 /\ y <= 32767 THEN {y} ELSE -32768..32767

\* std::chrono::year::is_leap.
is_leap(y) == y % 4 = 0 /\ (y % 100 # 0 \/ y % 400 = 0)

\* The last day of month m (in 1..12) of year y.
last_day(y, m) ==
  IF m = 2 THEN (IF is_leap(y) THEN 29 ELSE 28)
  ELSE IF m \in {4, 6, 9, 11} THEN 30
  ELSE 31

\* std::chrono::year_month_day::ok on the held values.
ymd_ok(y, m, d) ==
  /\ y >= -32767 /\ y <= 32767
  /\ m >= 1 /\ m <= 12
  /\ d >= 1 /\ d <= 31
  /\ d <= last_day(y, m)

\* The year_month_day values that year{year_}, month{unsigned(month_)},
\* day{unsigned(day_)} can hold.
ChronoYmd(year, month, day) ==
  {<<y, m, d>> : y \in ChronoYear(year),
                 m \in ChronoU8(month),
                 d \in ChronoU8(day)}

\* C truncating division, for a positive divisor.
TDiv(a, b) == IF a >= 0 THEN a \div b ELSE -((-a) \div b)

\* sys_days{ymd}: the days from 1970-01-01 to the civil day y-m-d.
days_from_civil(y0, m, d) ==
  LET y == IF m <= 2 THEN y0 - 1 ELSE y0
      era == TDiv(IF y >= 0 THEN y ELSE y - 399, 400)
      yoe == y - (era * 400)
      mp == IF m > 2 THEN m - 3 ELSE m + 9
      doy == (((153 * mp) + 2) \div 5) + (d - 1)
      doe == (yoe * 365) + (yoe \div 4) - (yoe \div 100) + doy
  IN (era * 146097) + doe - 719468

\* year_month_day{sys_days}: the civil day of a day count.
civil_from_days(z0) ==
  LET z == z0 + 719468
      era == TDiv(IF z >= 0 THEN z ELSE z - 146096, 146097)
      doe == z - (era * 146097)
      yoe == (doe - (doe \div 1460) + (doe \div 36524) - (doe \div 146096))
               \div 365
      y == yoe + (era * 400)
      doy == doe - ((365 * yoe) + (yoe \div 4) - (yoe \div 100))
      mp == ((5 * doy) + 2) \div 153
      d == doy - (((153 * mp) + 2) \div 5) + 1
      m == IF mp < 10 THEN mp + 3 ELSE mp - 9
  IN <<IF m <= 2 THEN y + 1 ELSE y, m, d>>

(***************************************************************************)
(* Signed 64-bit nanosecond counts (Timestamp::rep, std::chrono::nanoseconds)*)
(*                                                                         *)
(* A count of c nanoseconds is written in the mixed radix of days, seconds *)
(* and nanoseconds: [d, s, n] with 0 <= s < 86400, 0 <= n < 10^9 and       *)
(* c = (d * 86400 + s) * 10^9 + n, so that every digit fits a 32-bit       *)
(* integer.  The arithmetic below is exact; InI64 tells whether a count    *)
(* fits 64 bits.                                                           *)
(***************************************************************************)
\* The count (d * 86400 + s) * 10^9 + n, for any integers d, s and n.
Ns(d, s, n) ==
  LET s1 == s + (n \div 1000000000)
  IN [d |-> d + (s1 \div 86400), s |-> s1 % 86400, n |-> n % 1000000000]

NsZero == Ns(0, 0, 0)

NsAdd(x, y) == Ns(x.d + y.d, x.s + y.s, x.n + y.n)

NsSub(x, y) == Ns(x.d - y.d, x.s - y.s, x.n - y.n)

NsLess(x, y) ==
  \/ x.d < y.d
  \/ x.d = y.d /\ x.s < y.s
  \/ x.d = y.d /\ x.s = y.s /\ x.n < y.n

\* 2^63 - 1 = 9223372036854775807.
I64Max == [d |-> 106751, s |-> 85636, n |-> 854775807]

\* -2^63 = -9223372036854775808.
I64Min == [d |-> -106752, s |-> 763, n |-> 145224192]

\* 2^64 = 18446744073709551616.
Two64 == [d |-> 213503, s |-> 84873, n |-> 709551616]

InI64(x) == ~NsLess(x, I64Min) /\ ~NsLess(I64Max, x)

\* x modulo 2^64, in the signed range.
RECURSIVE WrapI64(_)
WrapI64(x) ==
  IF NsLess(I64Max, x) THEN WrapI64(NsSub(x, Two64))
  ELSE IF NsLess(x, I64Min) THEN WrapI64(NsAdd(x, Two64))
  ELSE x

\* Some int64 values, standing for "any value" where the arithmetic of the
\* code overflows (undefined behaviour).
OverflowSample == {NsZero, I64Min, I64Max}

\* What a signed 64-bit computation with exact result x can yield: x when it
\* fits and nothing overflowed on the way, else the wrapped value or any other.
I64Result(x, overflowed) ==
  IF InI64(x) /\ ~overflowed THEN {x} ELSE {WrapI64(x)} \cup OverflowSample

(***************************************************************************)
(* Formatted stream input (std::istringstream, operator>> with skipws)     *)
(***************************************************************************)
\* std::isspace in the classic locale.
IsSpace(c) == c \in {32, 9, 10, 11, 12, 13}

\* The position of the first character at or after p that is no whitespace.
RECURSIVE skipws(_, _)
skipws(s, p) ==
  IF p <= Len(s) /\ IsSpace(s[p]) THEN skipws(s, p + 1) ELSE p

\* The position of the first character at or after p that is no digit.
RECURSIVE DigitsEnd(_, _)
DigitsEnd(s, p) ==
  IF p <= Len(s) /\ digit(s[p]) >= 0 THEN DigitsEnd(s, p + 1) ELSE p

ExtractFail == [ok |-> FALSE, val |-> 0, pos |-> 0]

\* The int written by the digits s[i..last], negated when neg, accumulated
\* away from zero; ok is FALSE when it does not fit 32 bits.
RECURSIVE IntOfDigits(_, _, _, _, _)
IntOfDigits(s, i, last, neg, acc) ==
  IF i > last THEN [ok |-> TRUE, val |-> acc]
  ELSE LET dg == digit(s[i])
       IN IF neg
          THEN IF acc < -214748364 \/ (acc = -214748364 /\ dg > 8)
               THEN [ok |-> FALSE, val |-> 0]
               ELSE IntOfDigits(s, i + 1, last, neg, (acc * 10) - dg)
          ELSE IF acc > 214748364 \/ (acc = 214748364 /\ dg > 7)
               THEN [ok |-> FALSE, val |-> 0]
               ELSE IntOfDigits(s, i + 1, last, neg, (acc * 10) + dg)

\* iss >> int at position p0: whitespace is skipped, then an optional sign
\* and the longest run of digits are read; no digit, the end of the text or a
\* value out of int's range sets failbit.
ExtractInt(s, p0) ==
  LET p == skipws(s, p0)
  IN IF p > Len(s) THEN ExtractFail
     ELSE LET signed == s[p] = 43 \/ s[p] = 45
              q == IF signed THEN p + 1 ELSE p
              e == DigitsEnd(s, q)
          IN IF e = q THEN ExtractFail
             ELSE LET r == IntOfDigits(s, q, e - 1, s[p] = 45, 0)
                  IN IF r.ok THEN [ok |-> TRUE, val |-> r.val, pos |-> e]
                     ELSE ExtractFail

\* iss >> char at position p0: whitespace is skipped, then one character is
\* read; the end of the text sets failbit.
ExtractChar(s, p0) ==
  LET p == skipws(s, p0)
  IN IF p > Len(s) THEN ExtractFail
     ELSE [ok |-> TRUE, val |-> s[p], pos |-> p + 1]

\* iss.peek(): the next character, or EOF (-1) at the end of the text.
Peek(s, p) == IF p > Len(s) THEN -1 ELSE s[p]

(***************************************************************************)
(* Stream formatting (operator<< with std::setfill and std::setw)          *)
(***************************************************************************)
\* The decimal digits of n >= 0.
RECURSIVE DecDigits(_)
DecDigits(n) ==
  IF n < 10 THEN <<48 + n>>
  ELSE Append(DecDigits(n \div 10), 48 + (n % 10))

\* operator<<(int) with no width: a minus sign for a negative value.
PutInt(n) == IF n < 0 THEN <<45>> \o DecDigits(-n) ELSE DecDigits(n)

\* PadLeft that pads nothing.
PadLeft_nofill(s, w, fill) == s

\* The field padded to width w with fill on the left (the stream's default
\* adjustment); a field already w wide or wider is left as it is.
RECURSIVE PadLeft(_, _, _)
PadLeft(s, w, fill) ==
  IF Len(s) >= w THEN s ELSE PadLeft(<<fill>> \o s, w, fill)

\* PutIntW without std::setfill('0'): the stream's fill stays ' '.
RECURSIVE PadLeftSpaces(_, _)
PadLeftSpaces(s, w) ==
  IF Len(s) >= w THEN s ELSE PadLeftSpaces(<<32>> \o s, w)

PutIntW_spaces(n, w) == PadLeftSpaces(PutInt(n), w)

\* oss << std::setfill('0') << std::setw(w) << n.
PutIntW(n, w) == PadLeft(PutInt(n), w, 48)

(***************************************************************************)
(* Date.hpp                                                                *)
(***************************************************************************)
\* Date(int year, int month, int day): the fields are stored as given.
Date(y, m, d) == [year |-> y, month |-> m, day |-> d]

\* Date(): the default date.
DateDefault == Date(1970, 1, 1)

\* Date::parse that returns the fields it holds even when parse_ymd failed.
Date_parse_unchecked(s) ==
  LET r == parse_ymd(s)
  IN Date(r.a, r.b, r.c)

\* Date::parse.
Date_parse(s) ==
  LET r == parse_ymd(s)
  IN IF ~r.ok THEN DateDefault ELSE Date(r.a, r.b, r.c)

\* Date::is_valid: the values ymd.ok() can return.
Date_is_valid(dd) ==
  {ymd_ok(c[1], c[2], c[3]) : c \in ChronoYmd(dd.year, dd.month, dd.day)}

\* Date::to_string.
Date_to_string(dd) ==
  PutIntW(dd.year, 4) \o <<45>> \o PutIntW(dd.month, 2) \o <<45>>
    \o PutIntW(dd.day, 2)

\* Date::to_timestamp_utc with the days counted from 1, 1970-01-01 being day
\* 1.
Date_to_timestamp_utc_day1(dd) ==
  UNION {IF ~ymd_ok(c[1], c[2], c[3]) THEN {NsZero}
         ELSE I64Result(Ns(days_from_civil(c[1], c[2], c[3]) + 1, 0, 0),
                        FALSE)
         : c \in ChronoYmd(dd.year, dd.month, dd.day)}

\* Date::to_timestamp_utc: the Timestamps it can return.  For each value the
\* year_month_day can hold: the zero Timestamp when it is not ok, else the
\* midnight of the day, its day count times 86400 * 10^9 in 64 bits.
Date_to_timestamp_utc(dd) ==
  UNION {IF ~ymd_ok(c[1], c[2], c[3]) THEN {NsZero}
         ELSE I64Result(Ns(days_from_civil(c[1], c[2], c[3]), 0, 0), FALSE)
         : c \in ChronoYmd(dd.year, dd.month, dd.day)}

Call_Date_parse ==
  /\ Top.t = "text"
  /\ Push("Date_parse", DateV(Date_parse(Top.v)))

Call_Date_is_valid ==
  /\ Top.t = "date"
  /\ \E b \in Date_is_valid(Top.v) : Push("Date_is_valid", BoolV(b))

Call_Date_to_string ==
  /\ Top.t = "date"
  /\ Push("Date_to_string", TextV(Date_to_string(Top.v)))

Call_Date_to_timestamp_utc ==
  /\ Top.t = "date"
  /\ \E ts \in Date_to_timestamp_utc(Top.v) :
       Push("Date_to_timestamp_utc", TimestampV(ts))

(***************************************************************************)
(* DateTime.hpp                                                            *)
(***************************************************************************)
\* DateTime(year, month, day, hour, minute, second, nanosecond): the fields
\* are stored as given.
DateTime(y, mo, d, h, mi, se, ns) ==
  [year |-> y, month |-> mo, day |-> d, hour |-> h, minute |-> mi,
   second |-> se, nanosecond |-> ns]

\* DateTime(): the default datetime.
DateTimeDefault == DateTime(1970, 1, 1, 0, 0, 0, 0)

\* The statement iss >> y >> c1 >> mo >> c2 >> d >> sep_date_time >> h >> c3
\* >> mi >> c4 >> se of DateTime::parse, from extraction k on: kinds[k] tells
\* whether extraction k reads an int or a char.  Once one extraction fails the
\* stream stays failed and the later ones read nothing.
ParseKinds ==
  <<"int", "char", "int", "char", "int", "char", "int", "char", "int",
    "char", "int">>

RECURSIVE ExtractAll(_, _, _, _)
ExtractAll(s, p, k, vals) ==
  IF k > Len(ParseKinds) THEN [ok |-> TRUE, vals |-> vals, pos |-> p]
  ELSE LET r == IF ParseKinds[k] = "int" THEN ExtractInt(s, p)
                ELSE ExtractChar(s, p)
       IN IF ~r.ok THEN [ok |-> FALSE, vals |-> vals, pos |-> p]
          ELSE ExtractAll(s, r.pos, k + 1, Append(vals, r.val))

\* The loop of DateTime::parse over the fractional digits, from position p:
\* every digit is consumed and counted, the first nine are accumulated.
RECURSIVE frac_loop(_, _, _, _)
frac_loop(s, p, frac, frac_digits) ==
  LET ch == Peek(s, p)
  IN IF ch < 48 \/ ch > 57
     THEN [frac |-> frac, frac_digits |-> frac_digits, pos |-> p]
     ELSE IF frac_digits < 9
          THEN frac_loop(s, p + 1, (frac * 10) + (ch - 48), frac_digits + 1)
          ELSE frac_loop(s, p + 1, frac, frac_digits + 1)

\* frac_pad that pads nothing.
frac_pad_none(frac, frac_digits) == frac

\* The loop of DateTime::parse that pads the fraction to nanoseconds.
RECURSIVE frac_pad(_, _)
frac_pad(frac, frac_digits) ==
  IF frac_digits > 0 /\ frac_digits < 9
  THEN frac_pad(frac * 10, frac_digits + 1)
  ELSE frac

\* parse_in_range with the hour's upper bound off by one.
parse_in_range_h24(mo, d, h, mi, se) ==
  ~(mo < 1 \/ mo > 12 \/ d < 1 \/ d > 31 \/ h < 0 \/ h > 24 \/ mi < 0
      \/ mi > 59 \/ se < 0 \/ se > 60)

\* parse_in_range that takes no second above 59.
parse_in_range_s59(mo, d, h, mi, se) ==
  ~(mo < 1 \/ mo > 12 \/ d < 1 \/ d > 31 \/ h < 0 \/ h > 23 \/ mi < 0
      \/ mi > 59 \/ se < 0 \/ se > 59)

\* The range checks of DateTime::parse on the fields read.
parse_in_range(mo, d, h, mi, se) ==
  ~(mo < 1 \/ mo > 12 \/ d < 1 \/ d > 31 \/ h < 0 \/ h > 23 \/ mi < 0
      \/ mi > 59 \/ se < 0 \/ se > 60)

\* DateTime::parse.
DateTime_parse(s) ==
  LET r == ExtractAll(s, 1, 1, <<>>)
  IN IF ~r.ok THEN DateTimeDefault
     ELSE LET y == r.vals[1]
              c1 == r.vals[2]
              mo == r.vals[3]
              c2 == r.vals[4]
              d == r.vals[5]
              sep_date_time == r.vals[6]
              h == r.vals[7]
              c3 == r.vals[8]
              mi == r.vals[9]
              c4 == r.vals[10]
              se == r.vals[11]
          IN IF c1 # 45 \/ c2 # 45 \/ c3 # 58 \/ c4 # 58
                  \/ (sep_date_time # 84 /\ sep_date_time # 32)
             THEN DateTimeDefault
             ELSE LET f == IF Peek(s, r.pos) = 46
                           THEN frac_loop(s, r.pos + 1, 0, 0)
                           ELSE [frac |-> 0, frac_digits |-> 0, pos |-> r.pos]
                      frac == frac_pad(f.frac, f.frac_digits)
                  IN IF ~parse_in_range(mo, d, h, mi, se)
                     THEN DateTimeDefault
                     ELSE IF frac < 0 \/ frac > 999999999
                          THEN DateTimeDefault
                          ELSE DateTime(y, mo, d, h, mi, se, frac)

\* DateTime::to_timestamp_utc: the Timestamps it can return.  For each value
\* the year_month_day can hold: the zero Timestamp when it is not ok, else the
\* midnight of the day plus hours(hour_), minutes(minute_), seconds(second_)
\* and nanoseconds(nanosecond_), summed left to right in 64 bits.
DateTime_to_timestamp_utc(dt) ==
  UNION {IF ~ymd_ok(c[1], c[2], c[3]) THEN {NsZero}
         ELSE LET t0 == Ns(days_from_civil(c[1], c[2], c[3]), 0, 0)
                  th == Ns(0, dt.hour * 3600, 0)
                  tm == Ns(0, dt.minute * 60, 0)
                  tsec == Ns(0, dt.second, 0)
                  tn == Ns(0, 0, dt.nanosecond)
                  p1 == NsAdd(t0, th)
                  p2 == NsAdd(p1, tm)
                  p3 == NsAdd(p2, tsec)
                  p4 == NsAdd(p3, tn)
              IN I64Result(p4, \E x \in {t0, th, tm, tsec, p1, p2, p3} :
                                   ~InI64(x))
         : c \in ChronoYmd(dt.year, dt.month, dt.day)}

\* DateTime::from_timestamp_utc with the minutes taken from the whole time of
\* day, the hours not subtracted.
DateTime_from_timestamp_utc_minutes(ts) ==
  LET ymd == civil_from_days(ts.d)
  IN {DateTime(ymd[1], ymd[2], ymd[3], ts.s \div 3600, ts.s \div 60,
               ts.s % 60, ts.n)}

\* DateTime::from_timestamp_utc with the day rounded toward zero, not toward
\* negative infinity.
DateTime_from_timestamp_utc_trunc(ts) ==
  LET day == IF ts.d < 0 /\ (ts.s # 0 \/ ts.n # 0) THEN ts.d + 1 ELSE ts.d
      ymd == civil_from_days(day)
  IN {DateTime(ymd[1], ymd[2], ymd[3], ts.s \div 3600,
               (ts.s % 3600) \div 60, ts.s % 60, ts.n)}

\* DateTime::from_timestamp_utc: the DateTimes it can return (one, unless
\* tp - day_tp overflows).  floor<days>(tp) is the count's leading digit.
DateTime_from_timestamp_utc(ts) ==
  LET ymd == civil_from_days(ts.d)
      exact == DateTime(ymd[1], ymd[2], ymd[3], ts.s \div 3600,
                        (ts.s % 3600) \div 60, ts.s % 60, ts.n)
  IN IF InI64(Ns(ts.d, 0, 0)) THEN {exact}
     ELSE {exact, DateTimeDefault}

\* DateTime::to_string_utc that writes the fraction whatever nanosecond_ is.
DateTime_to_string_utc_frac(dt) ==
  PutIntW(dt.year, 4) \o <<45>> \o PutIntW(dt.month, 2) \o <<45>>
    \o PutIntW(dt.day, 2) \o <<84>> \o PutIntW(dt.hour, 2) \o <<58>>
    \o PutIntW(dt.minute, 2) \o <<58>> \o PutIntW(dt.second, 2)
    \o <<46>> \o PutIntW(dt.nanosecond, 9) \o <<90>>

\* DateTime::to_string_utc.
DateTime_to_string_utc(dt) ==
  PutIntW(dt.year, 4) \o <<45>> \o PutIntW(dt.month, 2) \o <<45>>
    \o PutIntW(dt.day, 2) \o <<84>> \o PutIntW(dt.hour, 2) \o <<58>>
    \o PutIntW(dt.minute, 2) \o <<58>> \o PutIntW(dt.second, 2)
    \o (IF dt.nanosecond # 0 THEN <<46>> \o PutIntW(dt.nanosecond, 9)
        ELSE <<>>)
    \o <<90>>

Call_DateTime_parse ==
  /\ Top.t = "text"
  /\ Push("DateTime_parse", DateTimeV(DateTime_parse(Top.v)))

Call_DateTime_to_string_utc ==
  /\ Top.t = "datetime"
  /\ Push("DateTime_to_string_utc", TextV(DateTime_to_string_utc(Top.v)))

Call_DateTime_to_timestamp_utc ==
  /\ Top.t = "datetime"
  /\ \E ts \in DateTime_to_timestamp_utc(Top.v) :
       Push("DateTime_to_timestamp_utc", TimestampV(ts))

Call_DateTime_from_timestamp_utc ==
  /\ Top.t = "timestamp"
  /\ \E dt \in DateTime_from_timestamp_utc(Top.v) :
       Push("DateTime_from_timestamp_utc", DateTimeV(dt))

(***************************************************************************)
(* Inputs of the Date operations                                           *)
(***************************************************************************)
Digits2 == {<<a, b>> : a \in DigitChars, b \in DigitChars}

YearTexts ==
  {Txt(<<"0", "0", "0", "0">>), Txt(<<"1", "9", "0", "0">>),
   Txt(<<"1", "9", "7", "0">>), Txt(<<"2", "0", "2", "4">>),
   Txt(<<"2", "0", "2", "6">>), Txt(<<"9", "9", "9", "9">>)}

DayTexts ==
  {Txt(<<"0", "0">>), Txt(<<"0", "1">>), Txt(<<"0", "7">>),
   Txt(<<"2", "8">>), Txt(<<"2", "9">>), Txt(<<"3", "0">>),
   Txt(<<"3", "1">>), Txt(<<"3", "2">>), Txt(<<"9", "9">>)}

\* Texts of shape DDDD-DD-DD, real calendar days or not.
ShapedDateTexts ==
  {y \o <<45>> \o m \o <<45>> \o d :
     y \in YearTexts, m \in Digits2, d \in DayTexts}

BaseDateText == Txt(<<"2", "0", "2", "6", "-", "0", "2", "-", "0", "7">>)

NotADateText == Txt(<<"n", "o", "t", "-", "a", "-", "d", "a", "t", "e">>)

MutationChars ==
  {Ord[c] : c \in {"0", "9", "-", ":", " ", "T", "x", "/", "+", "."}}

\* BaseDateText with one character replaced, cut short, or with one more.
MutatedDateTexts ==
  {[BaseDateText EXCEPT ![i] = c] : i \in 1..10, c \in MutationChars}
    \cup {SubSeq(BaseDateText, 1, n) : n \in 0..9}
    \cup {Append(BaseDateText, c) : c \in MutationChars}
    \cup {<<c>> \o BaseDateText : c \in MutationChars}
    \cup {NotADateText}

DateTexts == ShapedDateTexts \cup MutatedDateTexts

DateYears == {-1, 0, 1, 999, 1900, 1970, 2000, 2023, 2024, 2026, 9999, 10000}

DateMonths == 0..13 \cup {99, 100, 255}

DateDays == {0, 1, 28, 29, 30, 31, 32, 99, 100, 255}

\* Dates built by the constructor; the last ones have a field outside what
\* std::chrono::month, day or year hold exactly.
Dates ==
  {Date(y, m, d) : y \in DateYears, m \in DateMonths, d \in DateDays}
    \cup {Date(2026, 13, 1), Date(2026, 257, 1), Date(2026, -255, 1),
          Date(2026, -1, 1), Date(2026, 2, 257), Date(2026, 2, -1),
          Date(2026, 2, 0), Date(2024, 258, 285), Date(67436, 2, 29),
          Date(2026, -1, 5), Date(-5, 1, 1), Date(12345, 1, 1)}

InitDate ==
  /\ ops = <<>>
  /\ \/ \E s \in DateTexts : hist = <<TextV(s)>>
     \/ \E d \in Dates : hist = <<DateV(d)>>

NextDate ==
  \/ Call_Date_parse
  \/ Call_Date_is_valid
  \/ Call_Date_to_string
  \/ Call_Date_to_timestamp_utc

\* Date::parse, Date::is_valid, Date::to_string and Date::to_timestamp_utc
\* applied in chains to texts and to constructed Dates.
SpecDate == InitDate /\ [][NextDate]_vars

(***************************************************************************)
(* Inputs of DateTime::parse                                               *)
(***************************************************************************)
\* Longest run of fractional digits in an input text.
MaxFracDigits == 11

DtYearTexts ==
  {Txt(<<"0", "0", "0", "0">>), Txt(<<"1", "9", "7", "0">>),
   Txt(<<"2", "0", "2", "6">>)}

DtMonthTexts ==
  {Txt(<<"0", "0">>), Txt(<<"0", "1">>), Txt(<<"0", "2">>),
   Txt(<<"1", "2">>), Txt(<<"1", "3">>), Txt(<<"9", "9">>)}

DtDayTexts ==
  {Txt(<<"0", "0">>), Txt(<<"0", "1">>), Txt(<<"0", "7">>),
   Txt(<<"3", "0">>), Txt(<<"3", "1">>), Txt(<<"3", "2">>)}

DtDateTexts ==
  {y \o <<45>> \o m \o <<45>> \o d :
     y \in DtYearTexts, m \in DtMonthTexts, d \in DtDayTexts}

HourTexts ==
  {Txt(<<"0", "0">>), Txt(<<"1", "0">>), Txt(<<"2", "3">>),
   Txt(<<"2", "4">>), Txt(<<"2", "5">>)}

MinuteTexts ==
  {Txt(<<"0", "0">>), Txt(<<"3", "0">>), Txt(<<"5", "9">>),
   Txt(<<"6", "0">>)}

SecondTexts ==
  {Txt(<<"0", "0">>), Txt(<<"1", "5">>), Txt(<<"5", "9">>),
   Txt(<<"6", "0">>), Txt(<<"6", "1">>)}

TimeTexts ==
  {h \o <<58>> \o m \o <<58>> \o x :
     h \in HourTexts, m \in MinuteTexts, x \in SecondTexts}

BaseTimeText == Txt(<<"1", "0", ":", "3", "0", ":", "1", "5">>)

SepTexts ==
  {Txt(<<"T">>), Txt(<<" ">>), Txt(<<"t">>), Txt(<<>>), Txt(<<" ", " ">>),
   Txt(<<" ", "T">>), Txt(<<"T", " ">>), Txt(<<"\t">>)}

\* Digit patterns of fractions, repeated to the length asked for.
FracPatterns ==
  {Txt(<<"1", "2", "3", "4", "5", "6", "7", "8", "9">>),
   Txt(<<"5", "0", "0", "0", "0", "0", "0", "0", "0", "0", "0", "0", "0">>),
   Txt(<<"0">>), Txt(<<"9">>),
   Txt(<<"0", "0", "0", "0", "0", "0", "0", "0", "1", "9", "9", "9", "9">>),
   Txt(<<"0", "5", "0", "0", "0", "0", "0", "0", "7", "0", "0", "0", "3">>)}

FracDigitTexts ==
  {[i \in 1..k |-> pat[((i - 1) % Len(pat)) + 1]] :
     pat \in FracPatterns, k \in 1..MaxFracDigits}

FracTexts ==
  {<<46>> \o f : f \in FracDigitTexts}
    \cup {Txt(<<>>), Txt(<<".">>), Txt(<<".", "x">>), Txt(<<".", "-", "5">>),
          Txt(<<" ", ".", "5">>)}

TailTexts == {Txt(<<>>), Txt(<<"Z">>), Txt(<<"z">>), Txt(<<"Z", "x">>)}

BaseDateTimeText == BaseDateText \o Txt(<<"T">>) \o BaseTimeText

\* Texts that are not of the fixed-width shape: fields of other widths,
\* signs, whitespace, numbers beyond int.
IrregularDateTimeTexts ==
  {Txt(<<"2", "0", "2", "6", "-", "2", "-", "7", "T", "1", ":", "2", ":",
         "3">>),
   Txt(<<"2", "0", "2", "6", "-", "2", "-", "7", " ", "1", ":", "2", ":",
         "3">>),
   Txt(<<"2", "0", "2", "6", "-", "1", "3", "-", "7", "T", "1", ":", "2",
         ":", "3">>),
   Txt(<<"-", "2", "0", "2", "6", "-", "0", "2", "-", "0", "7", "T", "1",
         "0", ":", "3", "0", ":", "1", "5">>),
   Txt(<<"2", "0", "2", "6", "-", "+", "2", "-", "+", "7", "T", "+", "1",
         ":", "+", "2", ":", "+", "3">>),
   Txt(<<"2", "0", "2", "6", "-", "-", "2", "-", "0", "7", "T", "1", "0",
         ":", "3", "0", ":", "1", "5">>),
   Txt(<<"2", "0", "2", "6", " ", "-", " ", "0", "2", " ", "-", " ", "0",
         "7", " ", "T", " ", "1", "0", " ", ":", " ", "3", "0", " ", ":",
         " ", "1", "5">>),
   Txt(<<"9", "9", "9", "9", "9", "-", "0", "1", "-", "0", "1", "T", "0",
         "0", ":", "0", "0", ":", "0", "0">>),
   Txt(<<"2", "1", "4", "7", "4", "8", "3", "6", "4", "7", "-", "0", "1",
         "-", "0", "1", "T", "0", "0", ":", "0", "0", ":", "0", "0">>),
   Txt(<<"2", "1", "4", "7", "4", "8", "3", "6", "4", "8", "-", "0", "1",
         "-", "0", "1", "T", "0", "0", ":", "0", "0", ":", "0", "0">>),
   Txt(<<"0", "2", "0", "2", "6", "-", "0", "0", "2", "-", "0", "0", "7",
         "T", "0", "1", "0", ":", "0", "3", "0", ":", "0", "1", "5">>),
   NotADateText, BaseDateText, Txt(<<>>)}

\* BaseDateTimeText with one character replaced, cut short, or with one more.
MutatedDateTimeTexts ==
  {[BaseDateTimeText EXCEPT ![i] = c] : i \in 1..19, c \in MutationChars}
    \cup {SubSeq(BaseDateTimeText, 1, n) : n \in 0..18}
    \cup {<<c>> \o BaseDateTimeText : c \in MutationChars}

DateTimeTexts ==
  {d \o sep \o t : d \in DtDateTexts, sep \in {Txt(<<"T">>), Txt(<<" ">>)},
                   t \in TimeTexts}
    \cup {BaseDateText \o sep \o BaseTimeText \o f \o z :
            sep \in SepTexts, f \in FracTexts, z \in TailTexts}
    \cup {d \o <<84>> \o BaseTimeText \o z :
            d \in DtDateTexts, z \in TailTexts}
    \cup IrregularDateTimeTexts
    \cup MutatedDateTimeTexts

TextYears == {0, 1, 99, 1970, 2026, 9999}

TextNanos == {0, 1, 500, 100000000, 123456789, 999999999}

\* DateTimes built by the constructor with fields in the documented ranges,
\* real calendar days or not; the last two have a year that four digits do
\* not write.
TextDateTimes ==
  {DateTime(y, mo, d, h, mi, se, ns) :
     y \in TextYears, mo \in {1, 2, 12}, d \in {1, 30, 31}, h \in {0, 23},
     mi \in {0, 59}, se \in {0, 59, 60}, ns \in TextNanos}
    \cup {DateTime(10000, 1, 1, 0, 0, 0, 0), DateTime(-1, 1, 1, 0, 0, 0, 0)}

InitParse ==
  /\ ops = <<>>
  /\ \/ \E s \in DateTimeTexts : hist = <<TextV(s)>>
     \/ \E dt \in TextDateTimes : hist = <<DateTimeV(dt)>>

NextParse ==
  \/ Call_DateTime_parse
  \/ Call_DateTime_to_string_utc

\* DateTime::parse applied to texts, DateTime::to_string_utc to constructed
\* DateTimes, and each to what the other returns.
SpecParse == InitParse /\ [][NextParse]_vars

(***************************************************************************)
(* Inputs of the conversions between DateTime and Timestamp                *)
(***************************************************************************)
ConvYears == {1677, 1678, 1900, 1969, 1970, 2000, 2024, 2026, 2261, 2262, 3000}

ConvDays == {1, 28, 29, 30, 31}

ConvHours == {0, 23}

ConvMinutes == {0, 59}

ConvSeconds == {0, 59, 60}

ConvNanos == {0, 1, 999999999}

\* DateTimes built by the constructor, with fields in the documented ranges
\* (real calendar days or not); the last ones are at the two ends of the
\* 64-bit nanosecond range.
DateTimes ==
  {DateTime(y, mo, d, h, mi, se, ns) :
     y \in ConvYears, mo \in 1..12, d \in ConvDays, h \in ConvHours,
     mi \in ConvMinutes, se \in ConvSeconds, ns \in ConvNanos}
    \cup {DateTime(1677, 9, 21, 0, 12, 43, 145224192),
          DateTime(1677, 9, 21, 0, 12, 43, 145224191),
          DateTime(1677, 9, 22, 0, 0, 0, 0),
          DateTime(2262, 4, 11, 23, 47, 16, 854775807),
          DateTime(2262, 4, 11, 23, 47, 16, 854775808),
          DateTime(2026, 2, 7, 10, 30, 15, 0)}

ConvDateYears == {1, 1600, 9999}

\* Dates built by the constructor, real calendar days or not; the last ones
\* are around the first and the last day whose midnight fits 64 bits.
ConvDates ==
  {Date(y, m, d) :
     y \in ConvYears \cup ConvDateYears, m \in 1..12, d \in ConvDays}
    \cup {Date(1677, 9, 21), Date(1677, 9, 22), Date(2262, 4, 11),
          Date(2262, 4, 12), Date(1969, 12, 31), Date(1970, 1, 2)}

ConvStampDays == {-106751, -100000, -25567, -1, 0, 1, 59, 11016, 19782, 106751}

ConvStampSeconds == {0, 1, 3599, 3600, 43200, 86399}

\* Timestamps built by Timestamp::from_nanoseconds, negative ones included;
\* the last ones are at the two ends of the 64-bit range.
ConvTimestamps ==
  {x \in {Ns(d, sec, n) : d \in ConvStampDays, sec \in ConvStampSeconds,
                          n \in ConvNanos} : InI64(x)}
    \cup {I64Min, NsAdd(I64Min, Ns(0, 0, 1)), Ns(-106752, 86399, 999999999),
          NsSub(I64Max, Ns(0, 0, 1)), I64Max}

InitConv ==
  /\ ops = <<>>
  /\ \/ \E dt \in DateTimes : hist = <<DateTimeV(dt)>>
     \/ \E dd \in ConvDates : hist = <<DateV(dd)>>
     \/ \E ts \in ConvTimestamps : hist = <<TimestampV(ts)>>

NextConv ==
  \/ Call_Date_to_timestamp_utc
  \/ Call_DateTime_to_timestamp_utc
  \/ Call_DateTime_from_timestamp_utc

\* Date::to_timestamp_utc and DateTime::to_timestamp_utc applied to
\* constructed values, DateTime::from_timestamp_utc to Timestamps, each to
\* what the other returns.
SpecConv == InitConv /\ [][NextConv]_vars

(***************************************************************************)
(* Comparison operators of Timestamp, Date and DateTime                    *)
(***************************************************************************)
\* Two values of a class, the operands of a comparison.
DatesV(a, b) == [t |-> "dates", v |-> <<a, b>>]
DateTimesV(a, b) == [t |-> "datetimes", v |-> <<a, b>>]
TimestampsV(a, b) == [t |-> "timestamps", v |-> <<a, b>>]

\* operator==(Timestamp, Timestamp) and operator<(Timestamp, Timestamp).
Timestamp_eq(a, b) == a = b

Timestamp_less(a, b) == NsLess(a, b)

\* operator==(Date, Date) that leaves the days out.
Date_eq_noday(a, b) == a.year = b.year /\ a.month = b.month

\* operator==(Date, Date) and operator!=.
Date_eq(a, b) == a.year = b.year /\ a.month = b.month /\ a.day = b.day

Date_ne(a, b) == ~Date_eq(a, b)

\* operator<(Date, Date) that skips the months: by year, then day.
Date_less_nomonth(a, b) ==
  IF a.year # b.year THEN a.year < b.year
  ELSE a.day < b.day

\* operator<(Date, Date): by year, then month, then day.
Date_less(a, b) ==
  IF a.year # b.year THEN a.year < b.year
  ELSE IF a.month # b.month THEN a.month < b.month
  ELSE a.day < b.day

\* operator>, operator<= and operator>= of Date, each from operator<.
Date_greater(a, b) == Date_less(b, a)

Date_less_equal(a, b) == ~Date_less(b, a)

Date_greater_equal(a, b) == ~Date_less(a, b)

\* operator==(DateTime, DateTime) and operator!=: field-wise.
DateTime_eq(a, b) ==
  /\ a.year = b.year /\ a.month = b.month /\ a.day = b.day
  /\ a.hour = b.hour /\ a.minute = b.minute /\ a.second = b.second
  /\ a.nanosecond = b.nanosecond

DateTime_ne(a, b) == ~DateTime_eq(a, b)

\* operator<(DateTime, DateTime): the values it can return, one for each
\* pair of Timestamps the two conversions can return.
DateTime_less(a, b) ==
  {Timestamp_less(ta, tb) :
     ta \in DateTime_to_timestamp_utc(a), tb \in DateTime_to_timestamp_utc(b)}

\* operator>, operator<= and operator>= of DateTime, each from operator<.
DateTime_greater(a, b) == DateTime_less(b, a)

DateTime_less_equal(a, b) == {~r : r \in DateTime_less(b, a)}

DateTime_greater_equal(a, b) == {~r : r \in DateTime_less(a, b)}

Call_Timestamp_eq ==
  /\ Top.t = "timestamps"
  /\ Push("Timestamp_eq", BoolV(Timestamp_eq(Top.v[1], Top.v[2])))

Call_Timestamp_less ==
  /\ Top.t = "timestamps"
  /\ Push("Timestamp_less", BoolV(Timestamp_less(Top.v[1], Top.v[2])))

Call_Date_eq ==
  /\ Top.t = "dates"
  /\ Push("Date_eq", BoolV(Date_eq(Top.v[1], Top.v[2])))

Call_Date_ne ==
  /\ Top.t = "dates"
  /\ Push("Date_ne", BoolV(Date_ne(Top.v[1], Top.v[2])))

Call_Date_less ==
  /\ Top.t = "dates"
  /\ Push("Date_less", BoolV(Date_less(Top.v[1], Top.v[2])))

Call_Date_greater ==
  /\ Top.t = "dates"
  /\ Push("Date_greater", BoolV(Date_greater(Top.v[1], Top.v[2])))

Call_Date_less_equal ==
  /\ Top.t = "dates"
  /\ Push("Date_less_equal", BoolV(Date_less_equal(Top.v[1], Top.v[2])))

Call_Date_greater_equal ==
  /\ Top.t = "dates"
  /\ Push("Date_greater_equal", BoolV(Date_greater_equal(Top.v[1], Top.v[2])))

\* a.to_timestamp_utc() and b.to_timestamp_utc() of two Dates.
Call_Dates_to_timestamp_utc ==
  /\ Top.t = "dates"
  /\ \E ta \in Date_to_timestamp_utc(Top.v[1]),
        tb \in Date_to_timestamp_utc(Top.v[2]) :
       Push("Dates_to_timestamp_utc", TimestampsV(ta, tb))

Call_DateTime_eq ==
  /\ Top.t = "datetimes"
  /\ Push("DateTime_eq", BoolV(DateTime_eq(Top.v[1], Top.v[2])))

Call_DateTime_ne ==
  /\ Top.t = "datetimes"
  /\ Push("DateTime_ne", BoolV(DateTime_ne(Top.v[1], Top.v[2])))

Call_DateTime_less ==
  /\ Top.t = "datetimes"
  /\ \E r \in DateTime_less(Top.v[1], Top.v[2]) :
       Push("DateTime_less", BoolV(r))

Call_DateTime_greater ==
  /\ Top.t = "datetimes"
  /\ \E r \in DateTime_greater(Top.v[1], Top.v[2]) :
       Push("DateTime_greater", BoolV(r))

Call_DateTime_less_equal ==
  /\ Top.t = "datetimes"
  /\ \E r \in DateTime_less_equal(Top.v[1], Top.v[2]) :
       Push("DateTime_less_equal", BoolV(r))

Call_DateTime_greater_equal ==
  /\ Top.t = "datetimes"
  /\ \E r \in DateTime_greater_equal(Top.v[1], Top.v[2]) :
       Push("DateTime_greater_equal", BoolV(r))

\* a.to_timestamp_utc() and b.to_timestamp_utc() of two DateTimes.
Call_DateTimes_to_timestamp_utc ==
  /\ Top.t = "datetimes"
  /\ \E ta \in DateTime_to_timestamp_utc(Top.v[1]),
        tb \in DateTime_to_timestamp_utc(Top.v[2]) :
       Push("DateTimes_to_timestamp_utc", TimestampsV(ta, tb))

OrderYears == {1969, 1970, 2026}

OrderMonths == {1, 2, 12, 13, 257}

OrderDays == {1, 28, 30}

\* Dates to compare: real calendar days and others, the last ones outside
\* the years whose midnight fits 64 bits.
OrderDates ==
  {Date(y, m, d) : y \in OrderYears, m \in OrderMonths, d \in OrderDays}
    \cup {Date(2026, 2, 0), Date(2026, -1, 1), Date(1600, 1, 1),
          Date(3000, 1, 1)}

\* DateTimes to compare: real calendar days and others, at several times of
\* day.
OrderDateTimes ==
  {DateTime(y, mo, d, h, 0, 0, ns) :
     y \in {1970, 2026}, mo \in {1, 2}, d \in {1, 30}, h \in {0, 10},
     ns \in {0, 1}}
    \cup {DateTime(2026, 257, 1, 0, 0, 0, 0), DateTime(2026, 13, 1, 0, 0, 0, 0),
          DateTime(2026, 2, 31, 23, 59, 59, 999999999),
          DateTime(1969, 12, 31, 23, 59, 59, 999999999)}

InitOrder ==
  /\ ops = <<>>
  /\ \/ \E a \in OrderDates, b \in OrderDates : hist = <<DatesV(a, b)>>
     \/ \E a \in OrderDateTimes, b \in OrderDateTimes :
          hist = <<DateTimesV(a, b)>>

NextOrder ==
  \/ Call_Date_eq
  \/ Call_Date_ne
  \/ Call_Date_less
  \/ Call_Date_greater
  \/ Call_Date_less_equal
  \/ Call_Date_greater_equal
  \/ Call_Dates_to_timestamp_utc
  \/ Call_DateTime_eq
  \/ Call_DateTime_ne
  \/ Call_DateTime_less
  \/ Call_DateTime_greater
  \/ Call_DateTime_less_equal
  \/ Call_DateTime_greater_equal
  \/ Call_DateTimes_to_timestamp_utc
  \/ Call_Timestamp_eq
  \/ Call_Timestamp_less

\* The comparison operators applied to two Dates or two DateTimes, and those
\* of Timestamp to their two conversions.
SpecOrder == InitOrder /\ [][NextOrder]_vars

(***************************************************************************)
(* Duration.hpp, and the arithmetic of Timestamp.hpp                       *)
(***************************************************************************)
\* 0 - x.
NsNeg(x) == NsSub(NsZero, x)

\* x / 10 rounded toward negative infinity, digit by digit.
NsFloorTenth(x) ==
  LET s1 == ((x.d % 10) * 86400) + x.s
  IN Ns(x.d \div 10, s1 \div 10, ((s1 % 10) * 100000000) + (x.n \div 10))

\* Integer division of C++ by 10: x / 10 rounded toward negative infinity
\* whatever the sign of x.
NsDiv10_floor(x) == NsFloorTenth(x)

\* Integer division of C++ by 10: x / 10 rounded toward zero.
NsDiv10(x) ==
  IF NsLess(x, NsZero) THEN NsNeg(NsFloorTenth(NsNeg(x))) ELSE NsFloorTenth(x)

\* x / 10^k rounded toward zero.
RECURSIVE NsDivPow10(_, _)
NsDivPow10(x, k) == IF k = 0 THEN x ELSE NsDivPow10(NsDiv10(x), k - 1)

\* Duration::nanoseconds(ns), for an int64 ns.
Duration_nanoseconds(ns) == ns

\* Duration::milliseconds(ms): ms * 10^6 ns, for an int ms.
Duration_milliseconds(ms) ==
  I64Result(Ns(0, ms \div 1000, (ms % 1000) * 1000000), FALSE)

\* Duration::seconds(s): s * 10^9 ns, for an int s.
Duration_seconds(s) == I64Result(Ns(0, s, 0), FALSE)

\* Duration::count_us, count_ms and count_seconds: duration_cast divides the
\* count by 10^3, 10^6 and 10^9.
Duration_count_us(d) == NsDivPow10(d, 3)

Duration_count_ms(d) == NsDivPow10(d, 6)

Duration_count_seconds(d) == NsDivPow10(d, 9)

\* operator+(Duration, Duration): the Durations it can return.
Duration_plus(a, b) == I64Result(NsAdd(a, b), FALSE)

\* operator+(Timestamp, Duration) and operator-(Timestamp, Duration): the
\* Timestamps they can return.
Timestamp_plus(ts, d) == I64Result(NsAdd(ts, d), FALSE)

Timestamp_minus_Duration(ts, d) == I64Result(NsSub(ts, d), FALSE)

\* operator-(Timestamp, Timestamp) with the operands exchanged.
Timestamp_minus_Timestamp_swapped(a, b) == I64Result(NsSub(b, a), FALSE)

\* operator-(Timestamp, Timestamp): the Durations it can return.
Timestamp_minus_Timestamp(a, b) == I64Result(NsSub(a, b), FALSE)

\* operator>(Timestamp, Timestamp).
Timestamp_greater(a, b) == Timestamp_less(b, a)

\* A Timestamp and a Duration, the operands of an addition; two ints, the
\* arguments of Duration::seconds and Duration::milliseconds; two Durations;
\* one Duration; an int64 count.
TimestampDurationV(ts, d) == [t |-> "timestamp_duration", v |-> <<ts, d>>]
IntsV(a, b) == [t |-> "ints", v |-> <<a, b>>]
DurationsV(a, b) == [t |-> "durations", v |-> <<a, b>>]
DurationV(d) == [t |-> "duration", v |-> d]
Int64V(x) == [t |-> "int64", v |-> x]

\* t0 + d, for the operands t0 and d.
Call_Timestamp_plus ==
  /\ Top.t = "timestamp_duration"
  /\ \E r \in Timestamp_plus(Top.v[1], Top.v[2]) :
       Push("Timestamp_plus", TimestampV(r))

\* t - t0, for the last Timestamp t computed from the operands t0 and d.
Call_Timestamp_minus_Timestamp ==
  /\ Top.t = "timestamp"
  /\ hist[1].t = "timestamp_duration"
  /\ \E r \in Timestamp_minus_Timestamp(Top.v, hist[1].v[1]) :
       Push("Timestamp_minus_Timestamp", DurationV(r))

\* t - d, for the last Timestamp t computed from the operands t0 and d.
Call_Timestamp_minus_Duration ==
  /\ Top.t = "timestamp"
  /\ hist[1].t = "timestamp_duration"
  /\ \E r \in Timestamp_minus_Duration(Top.v, hist[1].v[2]) :
       Push("Timestamp_minus_Duration", TimestampV(r))

\* t > t0, for the last Timestamp t computed from the operands t0 and d.
Call_Timestamp_greater ==
  /\ Top.t = "timestamp"
  /\ hist[1].t = "timestamp_duration"
  /\ Push("Timestamp_greater", BoolV(Timestamp_greater(Top.v, hist[1].v[1])))

\* Duration::seconds(a) and Duration::milliseconds(b).
Call_Duration_seconds_milliseconds ==
  /\ Top.t = "ints"
  /\ \E x \in Duration_seconds(Top.v[1]),
        y \in Duration_milliseconds(Top.v[2]) :
       Push("Duration_seconds_milliseconds", DurationsV(x, y))

Call_Duration_plus ==
  /\ Top.t = "durations"
  /\ \E r \in Duration_plus(Top.v[1], Top.v[2]) :
       Push("Duration_plus", DurationV(r))

Call_Duration_count_us ==
  /\ Top.t = "duration"
  /\ Push("Duration_count_us", Int64V(Duration_count_us(Top.v)))

Call_Duration_count_ms ==
  /\ Top.t = "duration"
  /\ Push("Duration_count_ms", Int64V(Duration_count_ms(Top.v)))

Call_Duration_count_seconds ==
  /\ Top.t = "duration"
  /\ Push("Duration_count_seconds", Int64V(Duration_count_seconds(Top.v)))

\* Timestamps built by Timestamp::from_nanoseconds, the ends of the 64-bit
\* range included.
ArithTimestamps ==
  {NsZero, Ns(0, 0, 1), Ns(0, 0, -1), Ns(20454, 37815, 0), Ns(-25567, 0, 5),
   Ns(-106751, 0, 0), I64Min, NsSub(I64Max, Ns(0, 1, 0)), I64Max}

\* Durations built by Duration::nanoseconds, of either sign.
ArithDurations ==
  {Duration_nanoseconds(ns) :
     ns \in {NsZero, Ns(0, 0, 1), Ns(0, 0, -1), Ns(0, 0, 999), Ns(0, 0, -999),
             Ns(0, 0, 1000), Ns(0, 0, -1000), Ns(0, 0, 1999),
             Ns(0, 0, -1500000), Ns(0, 1, 0), Ns(0, -1, 0),
             Ns(0, 2, 500000000), Ns(0, -2, -500000000), Ns(1, 0, 0),
             I64Min, I64Max}}

ArithSeconds == {-2000000, -2, -1, 0, 1, 2, 3600}

ArithMillis == {-2500, -500, -1, 0, 1, 500, 999, 1000, 1001}

InitArith ==
  /\ ops = <<>>
  /\ \/ \E ts \in ArithTimestamps, d \in ArithDurations :
          hist = <<TimestampDurationV(ts, d)>>
     \/ \E d \in ArithDurations : hist = <<DurationV(d)>>
     \/ \E a \in ArithSeconds, b \in ArithMillis : hist = <<IntsV(a, b)>>

NextArith ==
  \/ Call_Timestamp_plus
  \/ Call_Timestamp_minus_Timestamp
  \/ Call_Timestamp_minus_Duration
  \/ Call_Timestamp_greater
  \/ Call_Duration_seconds_milliseconds
  \/ Call_Duration_plus
  \/ Call_Duration_count_us
  \/ Call_Duration_count_ms
  \/ Call_Duration_count_seconds

\* The arithmetic of Timestamp and Duration and the unit accessors of
\* Duration, applied to constructed operands and to each other's results.
SpecArith == InitArith /\ [][NextArith]_vars

(***************************************************************************)
(* Clock.hpp: SteadyClock                                                  *)
(***************************************************************************)
\* Largest reading of the steady clock, in nanoseconds.
MaxClock == 4

\* The readings std::chrono::steady_clock::now() can return.
SteadyReadings == {Ns(0, 0, k) : k \in 0..MaxClock}

\* The time_point SteadyClock::now_chrono returned; the clock read tp.
TimePointV(tp) == [t |-> "time_point", v |-> tp, now |-> tp]

\* The Duration SteadyClock::since(start) returned; the clock read now.
ElapsedV(d, start, now) ==
  [t |-> "elapsed", v |-> d, start |-> start, now |-> now]

\* std::chrono::steady_clock::now(): a reading not before the last one, the
\* clock being monotonic.
SteadyClock_now_chrono == {tp \in SteadyReadings : ~NsLess(tp, Top.now)}

\* SteadyClock::since with the difference taken the other way round.
SteadyClock_since_swapped(now, start) == I64Result(NsSub(start, now), FALSE)

\* SteadyClock::since(start), the clock reading now: the Durations it can
\* return.
SteadyClock_since(now, start) == I64Result(NsSub(now, start), FALSE)

Call_SteadyClock_now_chrono ==
  /\ Top.t \in {"time_point", "elapsed"}
  /\ \E tp \in SteadyClock_now_chrono :
       Push("SteadyClock_now_chrono", TimePointV(tp))

\* since(start) for a start that an earlier now_chrono() returned.
Call_SteadyClock_since ==
  /\ Top.t \in {"time_point", "elapsed"}
  /\ \E i \in 1..Len(hist) :
       /\ hist[i].t = "time_point"
       /\ \E now \in SteadyClock_now_chrono :
            \E d \in SteadyClock_since(now, hist[i].v) :
              Push("SteadyClock_since", ElapsedV(d, hist[i].v, now))

InitClock ==
  /\ ops = <<>>
  /\ \E tp \in SteadyReadings : hist = <<TimePointV(tp)>>

NextClock ==
  \/ Call_SteadyClock_now_chrono
  \/ Call_SteadyClock_since

\* SteadyClock::now_chrono and SteadyClock::since called one after the
\* other, after a first now_chrono.
SpecClock == InitClock /\ [][NextClock]_vars

(***************************************************************************)
(* Vocabulary of the properties                                            *)
(***************************************************************************)
\* ops[i] = a and ops[i + 1] = b: b was applied to the result of a.
Applied(i, a) == i <= Len(ops) /\ ops[i] = a

AppliedThen(i, a, b) == Applied(i, a) /\ Applied(i + 1, b)

IsDigit(c) == c \in 48..57

\* The number a run of decimal digits writes.
RECURSIVE DecimalValue(_)
DecimalValue(ds) ==
  IF ds = <<>> THEN 0
  ELSE (DecimalValue(SubSeq(ds, 1, Len(ds) - 1)) * 10) + (ds[Len(ds)] - 48)

RECURSIVE Pow10(_)
Pow10(k) == IF k = 0 THEN 1 ELSE 10 * Pow10(k - 1)

Min(a, b) == IF a <= b THEN a ELSE b

\* DDDD-DD-DD.
HasDateShape(s) ==
  /\ Len(s) = 10
  /\ s[5] = 45 /\ s[8] = 45
  /\ \A i \in {1, 2, 3, 4, 6, 7, 9, 10} : IsDigit(s[i])

\* DD:DD:DD.
HasTimeShape(s) ==
  /\ Len(s) = 8
  /\ s[3] = 58 /\ s[6] = 58
  /\ \A i \in {1, 2, 4, 5, 7, 8} : IsDigit(s[i])

\* What may follow the time: nothing, or '.' and one or more digits, then
\* optionally 'Z'.
HasSuffixShape(r) ==
  LET body == IF Len(r) > 0 /\ r[Len(r)] = 90
              THEN SubSeq(r, 1, Len(r) - 1) ELSE r
  IN \/ body = <<>>
     \/ /\ Len(body) >= 2
        /\ body[1] = 46
        /\ \A i \in 2..Len(body) : IsDigit(body[i])

\* A date, the separator sep, a time, and a suffix.
HasDateTimeShape(s, sep) ==
  /\ Len(s) >= 19
  /\ HasDateShape(SubSeq(s, 1, 10))
  /\ s[11] = sep
  /\ HasTimeShape(SubSeq(s, 12, 19))
  /\ HasSuffixShape(SubSeq(s, 20, Len(s)))

\* The fractional digits of a text of that shape.
FractionOf(s) ==
  LET r == SubSeq(s, 20, Len(s))
      body == IF Len(r) > 0 /\ r[Len(r)] = 90
              THEN SubSeq(r, 1, Len(r) - 1) ELSE r
  IN SubSeq(body, 2, Len(body))

\* The six fields written in a text of that shape, as numbers.
WrittenYear(s) == DecimalValue(SubSeq(s, 1, 4))
WrittenMonth(s) == DecimalValue(SubSeq(s, 6, 7))
WrittenDay(s) == DecimalValue(SubSeq(s, 9, 10))
WrittenHour(s) == DecimalValue(SubSeq(s, 12, 13))
WrittenMinute(s) == DecimalValue(SubSeq(s, 15, 16))
WrittenSecond(s) == DecimalValue(SubSeq(s, 18, 19))

WrittenInRange(s) ==
  /\ WrittenMonth(s) \in 1..12
  /\ WrittenDay(s) \in 1..31
  /\ WrittenHour(s) \in 0..23
  /\ WrittenMinute(s) \in 0..59
  /\ WrittenSecond(s) \in 0..60

\* The nanoseconds a fraction of k >= 1 digits stands for, from its first
\* min(k, 9) digits.
FractionNanos(f) ==
  LET m == Min(Len(f), 9)
  IN DecimalValue(SubSeq(f, 1, m)) * Pow10(9 - m)

\* The proleptic Gregorian calendar.
LeapYear(y) == y % 4 = 0 /\ (y % 100 # 0 \/ y % 400 = 0)

DaysInMonth(y, m) ==
  CASE m \in {1, 3, 5, 7, 8, 10, 12} -> 31
    [] m \in {4, 6, 9, 11} -> 30
    [] m = 2 -> IF LeapYear(y) THEN 29 ELSE 28

RealDay(y, m, d) == m \in 1..12 /\ d \in 1..DaysInMonth(y, m)

Epoch == [year |-> 1970, month |-> 1, day |-> 1]

EpochMidnight ==
  [year |-> 1970, month |-> 1, day |-> 1, hour |-> 0, minute |-> 0,
   second |-> 0, nanosecond |-> 0]

(***************************************************************************)
(* Properties                                                              *)
(***************************************************************************)
\* A DateTime that is valid in the sense of C1: a real calendar day, hour in
\* 0..23, minute in 0..59, second in 0..60, nanosecond in 0..999999999.
ValidDateTime(dt) ==
  /\ RealDay(dt.year, dt.month, dt.day)
  /\ dt.hour \in 0..23
  /\ dt.minute \in 0..59
  /\ dt.second \in 0..60
  /\ dt.nanosecond \in 0..999999999

\* C1 as stated: for any valid DateTime dt (second up to 60, any year),
\* from_timestamp_utc(dt.to_timestamp_utc()).to_string_utc() equals
\* dt.to_string_utc().
C1_RoundTripAnyValid ==
  \A i \in 1..Len(ops) :
    (/\ AppliedThen(i, "DateTime_to_timestamp_utc",
                    "DateTime_from_timestamp_utc")
     /\ ValidDateTime(hist[i].v))
      => DateTime_to_string_utc(hist[i + 2].v)
           = DateTime_to_string_utc(hist[i].v)

\* C1 amended: for any valid DateTime dt with second in 0..59 and year in
\* 1678..2261 (where the nanosecond count fits 64 bits),
\* from_timestamp_utc(dt.to_timestamp_utc()).to_string_utc() equals
\* dt.to_string_utc().
C1_RoundTrip ==
  \A i \in 1..Len(ops) :
    (/\ AppliedThen(i, "DateTime_to_timestamp_utc",
                    "DateTime_from_timestamp_utc")
     /\ ValidDateTime(hist[i].v)
     /\ hist[i].v.second \in 0..59
     /\ hist[i].v.year \in 1678..2261)
      => DateTime_to_string_utc(hist[i + 2].v)
           = DateTime_to_string_utc(hist[i].v)

\* A leap day before the epoch's century end, at the last nanosecond of the
\* day, went to a Timestamp and came back.
C1_Witness ==
  /\ AppliedThen(1, "DateTime_to_timestamp_utc", "DateTime_from_timestamp_utc")
  /\ hist[1].v = [year |-> 2024, month |-> 2, day |-> 29, hour |-> 23,
                  minute |-> 59, second |-> 59, nanosecond |-> 999999999]
  /\ hist[3].v = hist[1].v

\* C2: a text "YYYY-MM-DD HH:MM:SS" (one space) with in-range fields parses
\* to the fields written in it, as the same text with 'T' does, and not to the
\* default DateTime.
C2_SpaceSeparator ==
  \A i \in 1..Len(ops) :
    (/\ Applied(i, "DateTime_parse")
     /\ HasDateTimeShape(hist[i].v, 32)
     /\ Len(hist[i].v) = 19
     /\ WrittenInRange(hist[i].v))
      => /\ hist[i + 1].v
              = [year |-> WrittenYear(hist[i].v),
                 month |-> WrittenMonth(hist[i].v),
                 day |-> WrittenDay(hist[i].v),
                 hour |-> WrittenHour(hist[i].v),
                 minute |-> WrittenMinute(hist[i].v),
                 second |-> WrittenSecond(hist[i].v),
                 nanosecond |-> 0]
         /\ hist[i + 1].v = DateTime_parse([hist[i].v EXCEPT ![11] = 84])

\* C3: DateTime::parse returns the default DateTime for every text that is
\* not a DDDD-DD-DD date, 'T' or one space, a DD:DD:DD time, optionally '.'
\* and one or more digits, optionally 'Z'.
C3_RejectsMalformed ==
  \A i \in 1..Len(ops) :
    (/\ Applied(i, "DateTime_parse")
     /\ ~HasDateTimeShape(hist[i].v, 84)
     /\ ~HasDateTimeShape(hist[i].v, 32))
      => hist[i + 1].v = EpochMidnight

\* C4: every DateTime that DateTime::parse returns has month in 1..12, day in
\* 1..31, hour in 0..23, minute in 0..59, second in 0..60 and nanosecond in
\* 0..999999999; and a text of the fixed-width shape whose written fields
\* break one of these bounds parses to the default DateTime.
C4_ParsedFieldsInRange ==
  \A i \in 1..Len(ops) :
    Applied(i, "DateTime_parse")
      => /\ hist[i + 1].v.month \in 1..12
         /\ hist[i + 1].v.day \in 1..31
         /\ hist[i + 1].v.hour \in 0..23
         /\ hist[i + 1].v.minute \in 0..59
         /\ hist[i + 1].v.second \in 0..60
         /\ hist[i + 1].v.nanosecond \in 0..999999999
         /\ ((/\ \/ HasDateTimeShape(hist[i].v, 84)
                 \/ HasDateTimeShape(hist[i].v, 32)
              /\ ~WrittenInRange(hist[i].v))
               => hist[i + 1].v = EpochMidnight)

\* "2026-13-01T10:30:15Z" (month 13) was parsed, to the default DateTime.
C4_Witness ==
  /\ Applied(1, "DateTime_parse")
  /\ hist[1].v = Txt(<<"2", "0", "2", "6", "-", "1", "3", "-", "0", "1", "T",
                       "1", "0", ":", "3", "0", ":", "1", "5", "Z">>)
  /\ hist[2].v = EpochMidnight

\* C5: for a text "YYYY-MM-DDTHH:MM:SS" with in-range fields followed by '.'
\* and k >= 1 digits (and optionally 'Z'), DateTime::parse returns nanosecond
\* = (value of the first min(k, 9) digits) * 10^(9 - min(k, 9)), with the six
\* other fields as written.
C5_FractionNanos ==
  \A i \in 1..Len(ops) :
    (/\ Applied(i, "DateTime_parse")
     /\ HasDateTimeShape(hist[i].v, 84)
     /\ WrittenInRange(hist[i].v)
     /\ Len(FractionOf(hist[i].v)) >= 1)
      => /\ hist[i + 1].v.nanosecond = FractionNanos(FractionOf(hist[i].v))
         /\ hist[i + 1].v.second = WrittenSecond(hist[i].v)
         /\ hist[i + 1].v.year = WrittenYear(hist[i].v)

\* "2026-02-07T10:30:15.12345678912Z" (11 fractional digits) was parsed, to
\* 123456789 ns.
C5_Witness ==
  /\ Applied(1, "DateTime_parse")
  /\ hist[1].v = BaseDateTimeText
                   \o Txt(<<".", "1", "2", "3", "4", "5", "6", "7", "8", "9",
                            "1", "2", "Z">>)
  /\ hist[2].v.nanosecond = 123456789
  /\ hist[2].v.second = 15

\* C6: Date::parse returns the Date holding the decimal values of the three
\* digit groups, with no range or calendar check, exactly when the text is
\* of shape DDDD-DD-DD; for every other text it returns 1970-01-01.
C6_DateParse ==
  \A i \in 1..Len(ops) :
    Applied(i, "Date_parse")
      => hist[i + 1].v
           = IF HasDateShape(hist[i].v)
             THEN [year |-> WrittenYear(hist[i].v),
                   month |-> WrittenMonth(hist[i].v),
                   day |-> WrittenDay(hist[i].v)]
             ELSE Epoch

\* "2026-02-31" was parsed, to the fields 2026, 2, 31.
C6_Witness ==
  /\ Applied(1, "Date_parse")
  /\ hist[1].v = Txt(<<"2", "0", "2", "6", "-", "0", "2", "-", "3", "1">>)
  /\ hist[2].v = [year |-> 2026, month |-> 2, day |-> 31]

\* C7 as stated: the Date that Date::parse returns for a text not of shape
\* DDDD-DD-DD, such as "not-a-date", reports is_valid() = false.
C7_MalformedIsInvalid ==
  \A i \in 1..Len(ops) :
    (/\ AppliedThen(i, "Date_parse", "Date_is_valid")
     /\ ~HasDateShape(hist[i].v))
      => hist[i + 2].v = FALSE

\* C7 amended: the Date that Date::parse returns for a text not of shape
\* DDDD-DD-DD, such as "not-a-date", is the default Date 1970-01-01, which
\* reports is_valid() = true.
C7_MalformedIsEpoch ==
  \A i \in 1..Len(ops) :
    (/\ AppliedThen(i, "Date_parse", "Date_is_valid")
     /\ ~HasDateShape(hist[i].v))
      => /\ hist[i + 1].v = Epoch
         /\ hist[i + 2].v = TRUE

\* "not-a-date" was parsed and the result asked is_valid().
C7_Witness ==
  /\ AppliedThen(1, "Date_parse", "Date_is_valid")
  /\ hist[1].v = NotADateText
  /\ hist[3].v = TRUE

\* C8: for every text s of shape DDDD-DD-DD, Date::parse(s).to_string() = s;
\* and for every Date d with year in 0..9999, month in 0..99 and day in 0..99,
\* Date::parse(d.to_string()) = d.
C8_DateTextRoundTrip ==
  \A i \in 1..Len(ops) :
    /\ (/\ AppliedThen(i, "Date_parse", "Date_to_string")
        /\ HasDateShape(hist[i].v))
         => hist[i + 2].v = hist[i].v
    /\ (/\ AppliedThen(i, "Date_to_string", "Date_parse")
        /\ hist[i].v.year \in 0..9999
        /\ hist[i].v.month \in 0..99
        /\ hist[i].v.day \in 0..99)
         => hist[i + 2].v = hist[i].v

\* "0000-99-00", no calendar day, was parsed, written and parsed again.
C8_Witness ==
  /\ ops = <<"Date_parse", "Date_to_string", "Date_parse">>
  /\ hist[1].v = Txt(<<"0", "0", "0", "0", "-", "9", "9", "-", "0", "0">>)
  /\ hist[3].v = hist[1].v
  /\ hist[4].v = hist[2].v

\* C9 as stated: Date::to_string returns, for every Date, ten characters of
\* shape DDDD-DD-DD.
C9_ToStringShapeAnyDate ==
  \A i \in 1..Len(ops) :
    Applied(i, "Date_to_string") => HasDateShape(hist[i + 1].v)

\* C9 amended: Date::to_string returns ten characters of shape DDDD-DD-DD for
\* every Date with year in 0..9999, month in 0..99 and day in 0..99.
C9_ToStringShape ==
  \A i \in 1..Len(ops) :
    (/\ Applied(i, "Date_to_string")
     /\ hist[i].v.year \in 0..9999
     /\ hist[i].v.month \in 0..99
     /\ hist[i].v.day \in 0..99)
      => HasDateShape(hist[i + 1].v)

\* Date(1, 0, 99), built by the constructor, was written as "0001-00-99".
C9_Witness ==
  /\ Applied(1, "Date_to_string")
  /\ hist[1].v = [year |-> 1, month |-> 0, day |-> 99]
  /\ hist[2].v = Txt(<<"0", "0", "0", "1", "-", "0", "0", "-", "9", "9">>)

\* C10: for every Date, is_valid() is true if and only if month is in 1..12
\* and day is in 1..days_in_month(year, month).
C10_IsValidIffRealDay ==
  \A i \in 1..Len(ops) :
    Applied(i, "Date_is_valid")
      => hist[i + 1].v
           = RealDay(hist[i].v.year, hist[i].v.month, hist[i].v.day)

\* C11: every Date and every DateTime whose (year, month, day) is not a real
\* calendar day converts to the zero Timestamp, whatever its time of day.
C11_InvalidDayIsZero ==
  \A i \in 1..Len(ops) :
    (/\ \/ Applied(i, "Date_to_timestamp_utc")
        \/ Applied(i, "DateTime_to_timestamp_utc")
     /\ ~RealDay(hist[i].v.year, hist[i].v.month, hist[i].v.day))
      => hist[i + 1].v = NsZero

\* The days before January 1 of year y >= 1, counted from 0001-01-01.
DaysBeforeYear(y) ==
  (365 * (y - 1)) + ((y - 1) \div 4) - ((y - 1) \div 100) + ((y - 1) \div 400)

\* The days of year y before its month m.
RECURSIVE DaysBeforeMonth(_, _)
DaysBeforeMonth(y, m) ==
  IF m = 1 THEN 0 ELSE DaysBeforeMonth(y, m - 1) + DaysInMonth(y, m - 1)

\* The day number of a real calendar day of year >= 1, 1970-01-01 being day
\* 0 and the days before it negative.
EpochDay(y, m, d) ==
  (DaysBeforeYear(y) - DaysBeforeYear(1970)) + DaysBeforeMonth(y, m) + (d - 1)

\* Date(y, m, d).to_timestamp_utc() is midnight of day EpochDay(y, m, d), and
\* DateTime::from_timestamp_utc of it is y-m-d at 00:00:00.000000000.
MidnightRoundTrip(i) ==
  LET dd == hist[i].v
  IN /\ hist[i + 1].v = Ns(EpochDay(dd.year, dd.month, dd.day), 0, 0)
     /\ hist[i + 2].v = DateTime(dd.year, dd.month, dd.day, 0, 0, 0, 0)

\* C12 as stated: for every real calendar day (y, m, d) with 1 <= y <= 9999,
\* Date(y, m, d).to_timestamp_utc() is EpochDay(y, m, d) * 86400 * 10^9 ns and
\* DateTime::from_timestamp_utc of it is y-m-d at midnight.
C12_MidnightRoundTripAnyYear ==
  \A i \in 1..Len(ops) :
    (/\ AppliedThen(i, "Date_to_timestamp_utc", "DateTime_from_timestamp_utc")
     /\ RealDay(hist[i].v.year, hist[i].v.month, hist[i].v.day)
     /\ hist[i].v.year \in 1..9999)
      => MidnightRoundTrip(i)

\* C12 amended: the same for every real calendar day from 1677-09-22 to
\* 2262-04-11 (day numbers -106751..106751), whose midnight fits 64 bits.
C12_MidnightRoundTrip ==
  \A i \in 1..Len(ops) :
    (/\ AppliedThen(i, "Date_to_timestamp_utc", "DateTime_from_timestamp_utc")
     /\ RealDay(hist[i].v.year, hist[i].v.month, hist[i].v.day)
     /\ hist[i].v.year \in 1..9999
     /\ EpochDay(hist[i].v.year, hist[i].v.month, hist[i].v.day)
          \in -106751..106751)
      => MidnightRoundTrip(i)

\* A leap day before the epoch went to its midnight, a negative Timestamp,
\* and came back.
C12_Witness ==
  /\ AppliedThen(1, "Date_to_timestamp_utc", "DateTime_from_timestamp_utc")
  /\ hist[1].v = Date(1900, 2, 28)
  /\ NsLess(hist[2].v, NsZero)
  /\ hist[3].v = DateTime(1900, 2, 28, 0, 0, 0, 0)

\* a and b of a pair of DateTimes are both not real calendar days.
BothInvalidDays(p) ==
  /\ ~RealDay(p[1].year, p[1].month, p[1].day)
  /\ ~RealDay(p[2].year, p[2].month, p[2].day)

\* C13: a < b on DateTimes is a.to_timestamp_utc() < b.to_timestamp_utc(),
\* so two DateTimes that are not real calendar days are equivalent in the
\* order: neither a < b nor a > b, and a <= b and a >= b both hold.
C13_OrderByTimestamp ==
  /\ AppliedThen(1, "DateTimes_to_timestamp_utc", "Timestamp_less")
       => hist[3].v \in DateTime_less(hist[1].v[1], hist[1].v[2])
  /\ (Applied(1, "DateTime_less") /\ BothInvalidDays(hist[1].v))
       => hist[2].v = FALSE
  /\ (Applied(1, "DateTime_greater") /\ BothInvalidDays(hist[1].v))
       => hist[2].v = FALSE
  /\ (Applied(1, "DateTime_less_equal") /\ BothInvalidDays(hist[1].v))
       => hist[2].v = TRUE
  /\ (Applied(1, "DateTime_greater_equal") /\ BothInvalidDays(hist[1].v))
       => hist[2].v = TRUE

\* (year, month, day) of a before that of b in the lexicographic order.
LexLess(a, b) ==
  \/ a.year < b.year
  \/ a.year = b.year /\ a.month < b.month
  \/ a.year = b.year /\ a.month = b.month /\ a.day < b.day

ExactlyOne(p, q, r) ==
  \/ p /\ ~q /\ ~r
  \/ ~p /\ q /\ ~r
  \/ ~p /\ ~q /\ r

\* C14: on any two Dates a and b, real calendar days or not, a < b is the
\* lexicographic order of (year, month, day) and a == b their equality;
\* exactly one of a < b, a == b, b < a holds, a <= b iff (a < b or a == b),
\* and a < b and b < c give a < c.
C14_DateTotalOrder ==
  (Len(ops) >= 1 /\ hist[1].t = "dates") =>
    LET a == hist[1].v[1]
        b == hist[1].v[2]
    IN /\ Applied(1, "Date_less") => hist[2].v = LexLess(a, b)
       /\ Applied(1, "Date_greater") => hist[2].v = LexLess(b, a)
       /\ Applied(1, "Date_eq") => hist[2].v = (a = b)
       /\ Applied(1, "Date_ne") => hist[2].v = (a # b)
       /\ Applied(1, "Date_less_equal")
            => hist[2].v = (Date_less(a, b) \/ Date_eq(a, b))
       /\ Applied(1, "Date_greater_equal")
            => hist[2].v = (Date_less(b, a) \/ Date_eq(a, b))
       /\ ExactlyOne(Date_less(a, b), Date_eq(a, b), Date_less(b, a))
       /\ \A c \in OrderDates :
            (Date_less(a, b) /\ Date_less(b, c)) => Date_less(a, c)

\* A day that is not in the calendar compared less than a month that is
\* not in the calendar.
C14_Witness ==
  /\ Applied(1, "Date_less")
  /\ hist[1].v = <<Date(2026, 2, 30), Date(2026, 13, 1)>>
  /\ hist[2].v = TRUE

\* The fields of dt are in the documented ranges and its year has at most
\* four digits.
FieldsInRange(dt) ==
  /\ dt.year \in 0..9999
  /\ dt.month \in 1..12
  /\ dt.day \in 1..31
  /\ dt.hour \in 0..23
  /\ dt.minute \in 0..59
  /\ dt.second \in 0..60
  /\ dt.nanosecond \in 0..999999999

\* s is "YYYY-MM-DDTHH:MM:SS" writing the six fields of dt.
WritesFields(s, dt) ==
  /\ HasDateShape(SubSeq(s, 1, 10))
  /\ s[11] = 84
  /\ HasTimeShape(SubSeq(s, 12, 19))
  /\ WrittenYear(s) = dt.year
  /\ WrittenMonth(s) = dt.month
  /\ WrittenDay(s) = dt.day
  /\ WrittenHour(s) = dt.hour
  /\ WrittenMinute(s) = dt.minute
  /\ WrittenSecond(s) = dt.second

NineZeros == [k \in 1..9 |-> 48]

\* C15: DateTime::to_string_utc writes '.' and exactly nine digits, the
\* zero-padded nanosecond (in 0..999999999, as the constructor documents and
\* every parsed value has), if and only if nanosecond is not 0, and then 'Z';
\* for fields in range and a year in 0..9999 the text is
\* "YYYY-MM-DDTHH:MM:SS" and that suffix, 20 or 30 characters; a value parsed
\* from a text with fraction ".000000000" is written without a fraction.
C15_ToStringUtc ==
  \A i \in 1..Len(ops) :
    Applied(i, "DateTime_to_string_utc") =>
      LET dt == hist[i].v
          s == hist[i + 1].v
          n == Len(s)
      IN /\ n >= 1 /\ s[n] = 90
         /\ dt.nanosecond # 0 <=> (n >= 11 /\ s[n - 10] = 46)
         /\ dt.nanosecond # 0
              => /\ \A k \in (n - 9)..(n - 1) : IsDigit(s[k])
                 /\ DecimalValue(SubSeq(s, n - 9, n - 1)) = dt.nanosecond
         /\ dt.nanosecond = 0 => \A k \in 1..n : s[k] # 46
         /\ FieldsInRange(dt)
              => /\ n = (IF dt.nanosecond = 0 THEN 20 ELSE 30)
                 /\ WritesFields(s, dt)
         /\ (/\ i >= 2
             /\ Applied(i - 1, "DateTime_parse")
             /\ HasDateTimeShape(hist[i - 1].v, 84)
             /\ WrittenInRange(hist[i - 1].v)
             /\ FractionOf(hist[i - 1].v) = NineZeros)
              => n = 20 /\ WritesFields(s, dt)

\* A text with fraction ".000000000" was parsed and written back without it.
C15_Witness ==
  /\ AppliedThen(1, "DateTime_parse", "DateTime_to_string_utc")
  /\ hist[1].v = BaseDateTimeText \o <<46>> \o NineZeros \o <<90>>
  /\ hist[3].v = BaseDateTimeText \o <<90>>

OneSecond == Ns(0, 1, 0)

\* What C16 says of the operands t0 and d in hist[1], in every state where
\* the operations it names have been applied.
TimestampArithmetic ==
  LET t0 == hist[1].v[1]
      d == hist[1].v[2]
  IN /\ ops = <<"Timestamp_plus", "Timestamp_minus_Timestamp">>
          => hist[3].v = d
     /\ ops = <<"Timestamp_plus", "Timestamp_minus_Duration">>
          => hist[3].v = t0
     /\ (ops = <<"Timestamp_plus", "Timestamp_greater">> /\ d = OneSecond)
          => hist[3].v = TRUE
     /\ (/\ ops = <<"Timestamp_plus", "Timestamp_minus_Timestamp",
                    "Duration_count_seconds">>
         /\ d = OneSecond)
          => hist[4].v = Ns(0, 0, 1)

\* C16 as stated: for any Timestamp t0 and any Duration d, (t0 + d) - t0 == d
\* and (t0 + d) - d == t0, and t0 < t0 + seconds(1), where
\* ((t0 + seconds(1)) - t0).count_seconds() == 1.
C16_ArithmeticAnyOperands ==
  (Len(ops) >= 1 /\ hist[1].t = "timestamp_duration") => TimestampArithmetic

\* C16 amended: the same for any t0 and d whose sum t0 + d fits 64 bits.
C16_Arithmetic ==
  (/\ Len(ops) >= 1
   /\ hist[1].t = "timestamp_duration"
   /\ InI64(NsAdd(hist[1].v[1], hist[1].v[2])))
    => TimestampArithmetic

\* One second was added to a Timestamp before the epoch and the difference
\* to it read back as one second.
C16_Witness ==
  /\ ops = <<"Timestamp_plus", "Timestamp_minus_Timestamp",
             "Duration_count_seconds">>
  /\ hist[1].v = <<Ns(-25567, 0, 5), OneSecond>>
  /\ hist[3].v = OneSecond
  /\ hist[4].v = Ns(0, 0, 1)

\* 10 * x.
NsTimes10(x) ==
  Ns(x.d * 10, (x.s * 10) + (x.n \div 100000000), (x.n % 100000000) * 10)

RECURSIVE NsTimesPow10(_, _)
NsTimesPow10(x, k) == IF k = 0 THEN x ELSE NsTimesPow10(NsTimes10(x), k - 1)

\* q is x / 10^k rounded toward zero, for k in 1..9: x - q * 10^k is less
\* than 10^k in absolute value, and is not of the opposite sign of x.
IsQuotientTowardZero(q, x, k) ==
  LET rem == NsSub(x, NsTimesPow10(q, k))
      abs == IF NsLess(rem, NsZero) THEN NsNeg(rem) ELSE rem
  IN /\ abs.d = 0 /\ abs.s = 0 /\ abs.n < Pow10(k)
     /\ NsLess(NsZero, x) => ~NsLess(rem, NsZero)
     /\ NsLess(x, NsZero) => ~NsLess(NsZero, rem)
     /\ x = NsZero => q = NsZero

\* C17: for a Duration of n nanoseconds, of either sign, count_us(),
\* count_ms() and count_seconds() are n / 10^3, n / 10^6 and n / 10^9 rounded
\* toward zero; and (Duration::seconds(a) + Duration::milliseconds(b))
\* .count_ms() is 1000 * a + b.
C17_CountsTruncate ==
  /\ \A i \in 1..Len(ops) :
       /\ Applied(i, "Duration_count_us")
            => IsQuotientTowardZero(hist[i + 1].v, hist[i].v, 3)
       /\ Applied(i, "Duration_count_ms")
            => IsQuotientTowardZero(hist[i + 1].v, hist[i].v, 6)
       /\ Applied(i, "Duration_count_seconds")
            => IsQuotientTowardZero(hist[i + 1].v, hist[i].v, 9)
  /\ ops = <<"Duration_seconds_milliseconds", "Duration_plus",
             "Duration_count_ms">>
       => hist[4].v = Ns(0, 0, (1000 * hist[1].v[1]) + hist[1].v[2])

\* 2 s + 500 ms read back as 2500 ms.
C17_Witness ==
  /\ ops = <<"Duration_seconds_milliseconds", "Duration_plus",
             "Duration_count_ms">>
  /\ hist[1].v = <<2, 500>>
  /\ hist[4].v = Ns(0, 0, 2500)

\* C18: the steady clock never going back, SteadyClock::since(start) returns
\* a Duration that is not negative for every start an earlier now_chrono()
\* returned, and of two calls of since with the same start the later does not
\* return less than the earlier.
C18_SinceMonotonic ==
  /\ \A i \in 1..Len(ops) :
       Applied(i, "SteadyClock_since") => ~NsLess(hist[i + 1].v, NsZero)
  /\ \A i \in 1..Len(ops) : \A j \in 1..Len(ops) :
       (/\ i < j
        /\ Applied(i, "SteadyClock_since")
        /\ Applied(j, "SteadyClock_since")
        /\ hist[i + 1].start = hist[j + 1].start)
         => ~NsLess(hist[j + 1].v, hist[i + 1].v)

\* since was called twice with the start read first, and returned 1 ns and
\* then 3 ns.
C18_Witness ==
  /\ Len(ops) >= 2
  /\ AppliedThen(1, "SteadyClock_since", "SteadyClock_since")
  /\ hist[2].start = hist[1].v
  /\ hist[3].start = hist[1].v
  /\ hist[2].v = Ns(0, 0, 1)
  /\ hist[3].v = Ns(0, 0, 3)

\* What C19 says of the i-th operation, DateTime::from_timestamp_utc applied
\* to the Timestamp ts: the result is a real calendar day with its time
\* fields in range, to_timestamp_utc() of it is ts, the zero Timestamp gives
\* the default DateTime and -1 ns the last nanosecond of 1969.
FromTimestampExact(i) ==
  LET ts == hist[i].v
      dt == hist[i + 1].v
  IN /\ RealDay(dt.year, dt.month, dt.day)
     /\ dt.hour \in 0..23
     /\ dt.minute \in 0..59
     /\ dt.second \in 0..59
     /\ dt.nanosecond \in 0..999999999
     /\ Applied(i + 1, "DateTime_to_timestamp_utc") => hist[i + 2].v = ts
     /\ ts = NsZero => dt = EpochMidnight
     /\ ts = Ns(0, 0, -1)
          => dt = DateTime(1969, 12, 31, 23, 59, 59, 999999999)

\* C19 as stated: for every Timestamp ts, negative ones included,
\* DateTime::from_timestamp_utc(ts) is a real calendar day with hour in
\* 0..23, minute and second in 0..59 and nanosecond in 0..999999999, and
\* to_timestamp_utc() of it is ts.
C19_FromTimestampAnyTimestamp ==
  \A i \in 1..Len(ops) :
    Applied(i, "DateTime_from_timestamp_utc") => FromTimestampExact(i)

\* C19 amended: the same for every Timestamp not before 1677-09-22T00:00:00Z
\* (day -106751), the first day whose midnight fits 64 bits.
C19_FromTimestamp ==
  \A i \in 1..Len(ops) :
    (/\ Applied(i, "DateTime_from_timestamp_utc")
     /\ ~NsLess(hist[i].v, Ns(-106751, 0, 0)))
      => FromTimestampExact(i)

\* The Timestamp of -1 ns became the last nanosecond of 1969 and came back.
C19_Witness ==
  /\ AppliedThen(1, "DateTime_from_timestamp_utc", "DateTime_to_timestamp_utc")
  /\ hist[1].v = Ns(0, 0, -1)
  /\ hist[2].v = DateTime(1969, 12, 31, 23, 59, 59, 999999999)
  /\ hist[3].v = hist[1].v

\* dd is a real calendar day whose midnight fits 64 bits (1677-09-22 to
\* 2262-04-11).
RealDayInRange(dd) ==
  /\ RealDay(dd.year, dd.month, dd.day)
  /\ dd.year \in 1..9999
  /\ EpochDay(dd.year, dd.month, dd.day) \in -106751..106751

\* C20: for any two Dates a and b that are real calendar days with a
\* representable midnight, a < b iff a.to_timestamp_utc() <
\* b.to_timestamp_utc(), and a == b iff the two Timestamps are equal.
C20_DateOrderIsTimestampOrder ==
  (/\ Len(ops) >= 1
   /\ hist[1].t = "dates"
   /\ RealDayInRange(hist[1].v[1])
   /\ RealDayInRange(hist[1].v[2]))
    => LET a == hist[1].v[1]
           b == hist[1].v[2]
       IN /\ AppliedThen(1, "Dates_to_timestamp_utc", "Timestamp_less")
               => hist[3].v = Date_less(a, b)
          /\ AppliedThen(1, "Dates_to_timestamp_utc", "Timestamp_eq")
               => hist[3].v = Date_eq(a, b)
          /\ Applied(1, "Date_less")
               => \A ta \in Date_to_timestamp_utc(a),
                     tb \in Date_to_timestamp_utc(b) :
                    hist[2].v = Timestamp_less(ta, tb)
          /\ Applied(1, "Date_eq")
               => \A ta \in Date_to_timestamp_utc(a),
                     tb \in Date_to_timestamp_utc(b) :
                    hist[2].v = Timestamp_eq(ta, tb)

\* The Timestamps of a day of 1969 and of the epoch day compared as the
\* two Dates do.
C20_Witness ==
  /\ AppliedThen(1, "Dates_to_timestamp_utc", "Timestamp_less")
  /\ hist[1].v = <<Date(1969, 12, 30), Date(1970, 1, 1)>>
  /\ NsLess(hist[2].v[1], NsZero)
  /\ hist[3].v = TRUE

\* C21: for every DateTime dt with year in 0..9999, month in 1..12, day in
\* 1..31, hour in 0..23, minute in 0..59, second in 0..60 and nanosecond in
\* 0..999999999, DateTime::parse(dt.to_string_utc()) == dt, all seven fields
\* being equal.
C21_TextRoundTrip ==
  \A i \in 1..Len(ops) :
    (/\ AppliedThen(i, "DateTime_to_string_utc", "DateTime_parse")
     /\ FieldsInRange(hist[i].v))
      => /\ DateTime_eq(hist[i + 2].v, hist[i].v)
         /\ hist[i + 2].v = hist[i].v

\* A constructed DateTime with second 60 and one nanosecond, on a day that is
\* not in the calendar, was written and parsed back.
C21_Witness ==
  /\ AppliedThen(1, "DateTime_to_string_utc", "DateTime_parse")
  /\ hist[1].v = DateTime(2026, 2, 30, 23, 59, 60, 1)
  /\ Len(hist[2].v) = 30
  /\ hist[3].v = hist[1].v

====
